---- MODULE Spec2Model ----
(***************************************************************************)
(* Model of the AI Legal Chatbot backend (src/main.py): the chat handler   *)
(* POST /api/chat with its three document writes, and the two content      *)
(* handlers GET /api/plans and GET /api/case-studies.                      *)
(*                                                                         *)
(* Python str values are sequences of one-character strings, so that       *)
(* str.strip(), slicing and concatenation are computed and not assumed.    *)
(* The fixed prefix and suffix of the reply are one-element sequences      *)
(* holding the literal text.                                               *)
(***************************************************************************)
EXTENDS Integers, Sequences, FiniteSets, TLC

(* ---------------------------------------------------------------- bounds *)

\* Number of chat requests that may be in flight together.
NumRequests == 2
\* Longest request message (in characters) the single-request runs enumerate.
MaxLen == 3
\* Longest list of documents a content query returns in the model.
MaxDocs == 2

Requests == 1..NumRequests

(* ------------------------------------------------------- python values *)

\* Python's None, as the value of ChatRequest.conversation_id.
NONE == "None"

\* Characters of the model's messages; the first two are whitespace.
WHITESPACE == {" ", "\t"}
Chars == WHITESPACE \cup {"a", "b"}

\* `not x` for an Optional[str] conversation id: None and "" are falsy.
Falsy(x) == x \in {NONE, ""}

\* s[:n]
Take(s, n) == SubSeq(s, 1, IF Len(s) < n THEN Len(s) ELSE n)

RECURSIVE LStrip(_)
LStrip(s) ==
    IF s = <<>> THEN s
    ELSE IF Head(s) \in WHITESPACE THEN LStrip(Tail(s)) ELSE s

RECURSIVE RStrip(_)
RStrip(s) ==
    IF s = <<>> THEN s
    ELSE IF s[Len(s)] \in WHITESPACE THEN RStrip(SubSeq(s, 1, Len(s) - 1)) ELSE s

\* A plausible slip: the message is used as received.
Strip_NoStrip(s) == s

\* str.strip(): leading and trailing whitespace removed, the inside kept.
Strip(s) == RStrip(LStrip(s))

\* All sequences over S of length at most n.
SeqsUpTo(S, n) == UNION {[1..k -> S] : k \in 0..n}

(* ------------------------------------------------------ chat: constants *)

REPLY_PREFIX ==
    <<"I am not a lawyer, but here is general information based on your question: ">>
\* (the dash of the source's suffix is written "-" here)
REPLY_SUFFIX ==
    <<" - For legal advice, consult a licensed attorney in your jurisdiction.">>
TITLE_MAX == 60
NEW_CONVERSATION == <<"New Conversation">>
TEMPORARY == "temporary"

\* assistant_reply of chat: prefix + user_msg + suffix.
AssistantReply(user_msg) == REPLY_PREFIX \o user_msg \o REPLY_SUFFIX

\* user_msg[:60] or "New Conversation"
Title(user_msg) ==
    IF Take(user_msg, TITLE_MAX) = <<>> THEN NEW_CONVERSATION
    ELSE Take(user_msg, TITLE_MAX)

\* A plausible slip: the placeholder always replaces the id.
FallbackConvId_Always(conv_id) == TEMPORARY

\* conv_id = conv_id or "temporary" in the except branch of chat.
FallbackConvId(conv_id) == IF Falsy(conv_id) THEN TEMPORARY ELSE conv_id

(* ----------------------------------------------------------------- state *)

VARIABLES
    conversation,  \* the "conversation" collection: documents [id, title]
    message,       \* the "message" collection: [id, conversation_id, role, content]
    nextId,        \* the database's id generator
    pc,            \* pc[r]: where chat request r stands
    req,           \* req[r]: the ChatRequest body of r
    local,         \* local[r]: conv_id, user_msg, assistant_reply of r
    resp,          \* resp[r]: the HTTP response of r
    calls,         \* calls[r]: history of r's create_document calls, in order
    content        \* the last content request: endpoint, query result, response

vars == <<conversation, message, nextId, pc, req, local, resp, calls, content>>
chatVars == <<conversation, message, nextId, pc, req, local, resp, calls>>

NoReq == [conversation_id |-> NONE, message |-> <<>>]
NoLocal == [conv_id |-> NONE, user_msg |-> <<>>, assistant_reply |-> <<>>]
NoResp == [status |-> 0]
NoContent == [endpoint |-> "none"]

Init ==
    /\ conversation = {}
    /\ message = {}
    /\ nextId = 1
    /\ pc = [r \in Requests |-> "idle"]
    /\ req = [r \in Requests |-> NoReq]
    /\ local = [r \in Requests |-> NoLocal]
    /\ resp = [r \in Requests |-> NoResp]
    /\ calls = [r \in Requests |-> <<>>]
    /\ content = NoContent

(* ------------------------------------------------------- data access *)

\* The id the database gives the next inserted document, as create_document
\* returns it (a string).
NewId == "id" \o ToString(nextId)

ConversationDoc(id, title) == [id |-> id, title |-> title]
MessageDoc(id, conv_id, role, text) ==
    [id |-> id, conversation_id |-> conv_id, role |-> role, content |-> text]

\* One entry of calls[r]: which write, whether it returned, the id it returned.
Call(op, ok, id) == [op |-> op, ok |-> ok, id |-> id]

\* ChatResponse(conversation_id=str(conv_id), reply=assistant_reply), status 200.
ChatResponse(conv_id, reply) ==
    [status |-> 200, conversation_id |-> conv_id, reply |-> reply]
\* HTTPException(status_code=400, detail="Message cannot be empty")
BadRequest == [status |-> 400, detail |-> "Message cannot be empty"]
\* An exception that leaves the handler: the framework answers 500.
ServerError == [status |-> 500, detail |-> "Internal Server Error"]

(* ------------------------------------------------------ chat handler *)

\* A plausible slip: only the empty string is refused.
IsBlank_EmptyOnly(m) == m = <<>>

\* `not req.message.strip()`
IsBlank(m) == Strip(m) = <<>>

\* A plausible slip: the conversation is never created.
FirstWrite_SkipConversation(conversation_id) == "user"

\* `if not conv_id:` the first write is the conversation's when no id came.
FirstWrite(conversation_id) == IF Falsy(conversation_id) THEN "conv" ELSE "user"

\* Request bodies the handler is given.
Body(cid, m) == [conversation_id |-> cid, message |-> m]

\* chat, from its entry to its first create_document call: the validation,
\* the reply template and the choice whether a conversation is to be created.
ChatBegin(r, body) ==
    /\ pc[r] = "idle"
    /\ req' = [req EXCEPT ![r] = body]
    /\ IF IsBlank(body.message)
       THEN /\ resp' = [resp EXCEPT ![r] = BadRequest]
            /\ pc' = [pc EXCEPT ![r] = "done"]
            /\ UNCHANGED local
       ELSE /\ local' = [local EXCEPT ![r] =
                   [conv_id |-> body.conversation_id,
                    user_msg |-> Strip(body.message),
                    assistant_reply |-> AssistantReply(Strip(body.message))]]
            /\ pc' = [pc EXCEPT ![r] = FirstWrite(body.conversation_id)]
            /\ UNCHANGED resp
    /\ UNCHANGED <<conversation, message, nextId, calls, content>>

\* A plausible slip: an existing conversation of the same title is reused.
CreateConversation_Dedup(r) ==
    /\ pc[r] = "conv"
    /\ \E ok \in BOOLEAN :
        IF ok
        THEN LET same == {c \in conversation : c.title = Title(local[r].user_msg)}
                 id == IF same = {} THEN NewId ELSE (CHOOSE c \in same : TRUE).id
             IN /\ conversation' =
                       conversation \cup {ConversationDoc(id, Title(local[r].user_msg))}
                /\ nextId' = nextId + 1
                /\ local' = [local EXCEPT ![r].conv_id = id]
                /\ calls' = [calls EXCEPT ![r] = Append(@, Call("conversation", TRUE, id))]
                /\ pc' = [pc EXCEPT ![r] = "user"]
                /\ UNCHANGED resp
        ELSE /\ calls' = [calls EXCEPT ![r] = Append(@, Call("conversation", FALSE, NONE))]
             /\ resp' = [resp EXCEPT ![r] = ServerError]
             /\ pc' = [pc EXCEPT ![r] = "done"]
             /\ UNCHANGED <<conversation, nextId, local>>
    /\ UNCHANGED <<message, req, content>>

\* A plausible slip: the id create_document returns is not kept.
CreateConversation_DropId(r) ==
    /\ pc[r] = "conv"
    /\ \E ok \in BOOLEAN :
        IF ok
        THEN /\ conversation' =
                    conversation \cup {ConversationDoc(NewId, Title(local[r].user_msg))}
             /\ nextId' = nextId + 1
             /\ calls' = [calls EXCEPT ![r] = Append(@, Call("conversation", TRUE, NewId))]
             /\ pc' = [pc EXCEPT ![r] = "user"]
             /\ UNCHANGED <<resp, local>>
        ELSE /\ calls' = [calls EXCEPT ![r] = Append(@, Call("conversation", FALSE, NONE))]
             /\ resp' = [resp EXCEPT ![r] = ServerError]
             /\ pc' = [pc EXCEPT ![r] = "done"]
             /\ UNCHANGED <<conversation, nextId, local>>
    /\ UNCHANGED <<message, req, content>>

\* conv_id = create_document("conversation", {"title": ...}), outside the try:
\* when the call raises, the exception leaves the handler.
CreateConversation(r) ==
    /\ pc[r] = "conv"
    /\ \E ok \in BOOLEAN :
        IF ok
        THEN /\ conversation' =
                    conversation \cup {ConversationDoc(NewId, Title(local[r].user_msg))}
             /\ nextId' = nextId + 1
             /\ local' = [local EXCEPT ![r].conv_id = NewId]
             /\ calls' = [calls EXCEPT ![r] = Append(@, Call("conversation", TRUE, NewId))]
             /\ pc' = [pc EXCEPT ![r] = "user"]
             /\ UNCHANGED resp
        ELSE /\ calls' = [calls EXCEPT ![r] = Append(@, Call("conversation", FALSE, NONE))]
             /\ resp' = [resp EXCEPT ![r] = ServerError]
             /\ pc' = [pc EXCEPT ![r] = "done"]
             /\ UNCHANGED <<conversation, nextId, local>>
    /\ UNCHANGED <<message, req, content>>

\* The except branch of chat and the return that follows it.
RespondDegraded(r) ==
    /\ local' = [local EXCEPT ![r].conv_id = FallbackConvId(@)]
    /\ resp' = [resp EXCEPT ![r] =
           ChatResponse(FallbackConvId(local[r].conv_id), local[r].assistant_reply)]
    /\ pc' = [pc EXCEPT ![r] = "done"]

\* A plausible slip: each write has its own try, so a failed user write does
\* not stop the assistant write.
SaveUserMessage_Continue(r) ==
    /\ pc[r] = "user"
    /\ \E ok \in BOOLEAN :
        IF ok
        THEN /\ message' = message \cup
                    {MessageDoc(NewId, local[r].conv_id, "user", local[r].user_msg)}
             /\ nextId' = nextId + 1
             /\ calls' = [calls EXCEPT ![r] = Append(@, Call("user", TRUE, NewId))]
        ELSE /\ calls' = [calls EXCEPT ![r] = Append(@, Call("user", FALSE, NONE))]
             /\ UNCHANGED <<message, nextId>>
    /\ pc' = [pc EXCEPT ![r] = "asst"]
    /\ UNCHANGED <<conversation, req, content, resp, local>>

\* create_document("message", {... "role": "user", "content": user_msg}),
\* the first statement of the try.
SaveUserMessage(r) ==
    /\ pc[r] = "user"
    /\ \E ok \in BOOLEAN :
        IF ok
        THEN /\ message' = message \cup
                    {MessageDoc(NewId, local[r].conv_id, "user", local[r].user_msg)}
             /\ nextId' = nextId + 1
             /\ calls' = [calls EXCEPT ![r] = Append(@, Call("user", TRUE, NewId))]
             /\ pc' = [pc EXCEPT ![r] = "asst"]
             /\ UNCHANGED <<resp, local>>
        ELSE /\ calls' = [calls EXCEPT ![r] = Append(@, Call("user", FALSE, NONE))]
             /\ RespondDegraded(r)
             /\ UNCHANGED <<message, nextId>>
    /\ UNCHANGED <<conversation, req, content>>

\* create_document("message", {... "role": "assistant", "content":
\* assistant_reply}), the second statement of the try, and the return.
SaveAssistantMessage(r) ==
    /\ pc[r] = "asst"
    /\ \E ok \in BOOLEAN :
        IF ok
        THEN /\ message' = message \cup
                    {MessageDoc(NewId, local[r].conv_id, "assistant",
                                local[r].assistant_reply)}
             /\ nextId' = nextId + 1
             /\ calls' = [calls EXCEPT ![r] = Append(@, Call("assistant", TRUE, NewId))]
             /\ resp' = [resp EXCEPT ![r] =
                    ChatResponse(local[r].conv_id, local[r].assistant_reply)]
             /\ pc' = [pc EXCEPT ![r] = "done"]
             /\ UNCHANGED local
        ELSE /\ calls' = [calls EXCEPT ![r] = Append(@, Call("assistant", FALSE, NONE))]
             /\ RespondDegraded(r)
             /\ UNCHANGED <<message, nextId>>
    /\ UNCHANGED <<conversation, req, content>>

(* -------------------------------------------------------- specifications *)

\* Conversation ids a client sends: none, the empty string, an id the
\* database may have handed out, an id it never hands out.
ClientIds == {NONE, "", "id1", "c9"}

\* Bodies of the concurrent runs: a blank message and one that needs stripping.
ConcBodies == {Body(cid, m) : cid \in ClientIds, m \in {<<" ">>, <<" ", "a">>}}

\* Bodies of the single-request runs: every message up to MaxLen characters.
AllBodies == {Body(cid, m) : cid \in ClientIds, m \in SeqsUpTo(Chars, MaxLen)}

Next ==
    \/ \E r \in Requests : \E body \in ConcBodies : ChatBegin(r, body)
    \/ \E r \in Requests : CreateConversation(r)
    \/ \E r \in Requests : SaveUserMessage(r)
    \/ \E r \in Requests : SaveAssistantMessage(r)

Spec == Init /\ [][Next]_vars

NextOne ==
    \/ \E body \in AllBodies : ChatBegin(1, body)
    \/ CreateConversation(1)
    \/ SaveUserMessage(1)
    \/ SaveAssistantMessage(1)

SpecOne == Init /\ [][NextOne]_vars

(* ---------------------------------------------------- content handlers *)

\* JSON-like values of a stored document's fields.
PyNone == <<"none">>
PyStr(x) == <<"str", x>>
PyList(l) == <<"list", l>>
\* Marks a field the document does not have.
MISSING == <<"missing">>

\* A document: a function from the fields it has to their values.
MkDoc(rec) == [k \in {f \in DOMAIN rec : rec[f] # MISSING} |-> rec[k]]

\* d.get(k)
Get(d, k) == IF k \in DOMAIN d THEN d[k] ELSE PyNone

\* Python truthiness of a field value.
Truthy(v) == v \notin {PyNone, PyStr(""), PyList(<<>>)}

\* `v or []`
OrEmptyList(v) == IF Truthy(v) THEN v ELSE PyList(<<>>)

\* The hardcoded plans of get_plans.
DEFAULT_PLANS == <<
    [name |-> PyStr("Starter"), price |-> PyStr("$29/mo"),
     description |-> PyStr("For solos and small teams exploring AI assistance."),
     features |-> PyList(<<"100 chats/mo", "Basic contract Q&A", "Email summaries",
                           "Community support">>)],
    [name |-> PyStr("Pro"), price |-> PyStr("$99/mo"),
     description |-> PyStr("For growing teams that need faster reviews and guardrails."),
     features |-> PyList(<<"1000 chats/mo", "Clause extraction", "Upload + annotate PDFs",
                           "SAML SSO">>)],
    [name |-> PyStr("Enterprise"), price |-> PyStr("Custom"),
     description |-> PyStr("Tailored deployments, private data, and advanced controls."),
     features |-> PyList(<<"Unlimited chats", "Private knowledge base",
                           "SOC2, HIPAA options", "Dedicated support">>)] >>

\* The hardcoded case studies of get_case_studies.
DEFAULT_CASE_STUDIES == <<
    [title |-> PyStr("Contract Review for SaaS Provider"), industry |-> PyStr("Technology"),
     summary |-> PyStr("Automated early risk flags in MSAs and DPAs."),
     impact |-> PyStr("70% faster first-pass review"),
     metrics |-> PyList(<<"-70% review time", "+30% throughput", "99% clause coverage">>)],
    [title |-> PyStr("Compliance Intake for HR Policies"), industry |-> PyStr("Healthcare"),
     summary |-> PyStr("Answer common employee compliance questions."),
     impact |-> PyStr("Reduced legal tickets by 45%"),
     metrics |-> PyList(<<"45% fewer tickets", "24/7 availability">>)],
    [title |-> PyStr("Discovery Q&A for Litigation Team"), industry |-> PyStr("Legal Services"),
     summary |-> PyStr("Natural-language search over prior filings."),
     impact |-> PyStr("Improved first-draft quality"),
     metrics |-> PyList(<<"2x faster drafting", "Centralized knowledge">>)] >>

\* The projection of one stored plan in get_plans.
PlanItem(d) ==
    [name |-> Get(d, "name"), price |-> Get(d, "price"),
     description |-> Get(d, "description"),
     features |-> OrEmptyList(Get(d, "features"))]

\* The projection of one stored case study in get_case_studies.
CaseStudyItem(d) ==
    [title |-> Get(d, "title"), industry |-> Get(d, "industry"),
     summary |-> Get(d, "summary"), impact |-> Get(d, "impact"),
     metrics |-> OrEmptyList(Get(d, "metrics"))]

\* What get_documents does: it raises, or returns a list of documents.
Raised == [raised |-> TRUE, docs |-> <<>>]
Returned(docs) == [raised |-> FALSE, docs |-> docs]

\* A plausible slip: the stored plans are appended to the defaults.
Plans_Merge(q) ==
    IF ~q.raised /\ q.docs # <<>>
    THEN DEFAULT_PLANS \o [i \in 1..Len(q.docs) |-> PlanItem(q.docs[i])]
    ELSE DEFAULT_PLANS

\* A plausible slip: an empty query result empties the list.
Plans_NoDefault(q) ==
    IF ~q.raised
    THEN [i \in 1..Len(q.docs) |-> PlanItem(q.docs[i])]
    ELSE DEFAULT_PLANS

\* `plans` of get_plans after its try block.
Plans(q) ==
    IF ~q.raised /\ q.docs # <<>>
    THEN [i \in 1..Len(q.docs) |-> PlanItem(q.docs[i])]
    ELSE DEFAULT_PLANS

\* `items` of get_case_studies after its try block.
CaseStudies(q) ==
    IF ~q.raised /\ q.docs # <<>>
    THEN [i \in 1..Len(q.docs) |-> CaseStudyItem(q.docs[i])]
    ELSE DEFAULT_CASE_STUDIES

\* Stored plans: with or without a name, the features missing, null, empty
\* or filled, and always the database's _id, which is not projected.
PlanDocs ==
    {MkDoc([_id |-> PyStr("p"), name |-> n, price |-> PyStr("$5/mo"),
            description |-> PyStr("Team plan"), features |-> f]) :
        n \in {MISSING, PyStr("Team")},
        f \in {MISSING, PyNone, PyList(<<>>), PyList(<<"SSO">>)}}

\* Stored case studies, likewise.
CaseStudyDocs ==
    {MkDoc([_id |-> PyStr("c"), title |-> t, industry |-> PyStr("Retail"),
            summary |-> PyStr("Lease review"), impact |-> PyStr("Faster"),
            metrics |-> m]) :
        t \in {MISSING, PyStr("Leases")},
        m \in {MISSING, PyNone, PyList(<<>>), PyList(<<"2x">>)}}

\* What a query over documents D may give the handler.
QueryResults(D) == {Raised} \cup {Returned(docs) : docs \in SeqsUpTo(D, MaxDocs)}

\* GET /api/plans
GetPlans ==
    /\ \E q \in QueryResults(PlanDocs) :
        content' = [endpoint |-> "plans", query |-> q,
                    response |-> [status |-> 200, plans |-> Plans(q)]]
    /\ UNCHANGED chatVars

\* GET /api/case-studies
GetCaseStudies ==
    /\ \E q \in QueryResults(CaseStudyDocs) :
        content' = [endpoint |-> "case-studies", query |-> q,
                    response |-> [status |-> 200, caseStudies |-> CaseStudies(q)]]
    /\ UNCHANGED chatVars

NextContent == GetPlans \/ GetCaseStudies

SpecContent == Init /\ [][NextContent]_vars

(* ------------------------------------------------ vocabulary of the claims *)

Done(r) == pc[r] = "done"

\* The message is empty or consists only of whitespace.
AllWhitespace(m) == \A i \in 1..Len(m) : m[i] \in WHITESPACE

\* u is m without its leading and trailing whitespace.
IsStripOf(u, m) ==
    \E a \in 0..Len(m) :
        /\ a + Len(u) <= Len(m)
        /\ u = SubSeq(m, a + 1, a + Len(u))
        /\ \A i \in 1..a : m[i] \in WHITESPACE
        /\ \A i \in (a + Len(u) + 1)..Len(m) : m[i] \in WHITESPACE
        /\ u # <<>> => u[1] \notin WHITESPACE /\ u[Len(u)] \notin WHITESPACE

\* The writes request r has attempted, in order.
Ops(r) == [i \in 1..Len(calls[r]) |-> calls[r][i].op]

\* Every create_document call r has made returned.
AllOk(r) == \A i \in 1..Len(calls[r]) : calls[r][i].ok

\* Every create_document call r has made raised, and it made one.
AllRaised(r) == calls[r] # <<>> /\ \A i \in 1..Len(calls[r]) : ~calls[r][i].ok

\* The ids create_document returned to r for its writes of kind op.
OkIds(r, op) ==
    {calls[r][i].id : i \in {j \in 1..Len(calls[r]) : calls[r][j].op = op /\ calls[r][j].ok}}

\* The documents r has persisted.
ConversationsOf(r) == {c \in conversation : c.id \in OkIds(r, "conversation")}
UserMessagesOf(r) == {m \in message : m.id \in OkIds(r, "user") /\ m.role = "user"}
AssistantMessagesOf(r) ==
    {m \in message : m.id \in OkIds(r, "assistant") /\ m.role = "assistant"}
MessagesOf(r) == UserMessagesOf(r) \cup AssistantMessagesOf(r)

\* Number of persisted messages of a role under a conversation id.
Count(cid, role) ==
    Cardinality({m \in message : m.conversation_id = cid /\ m.role = role})

\* A request with a non-blank message and no conversation id.
Fresh(r) ==
    /\ pc[r] # "idle"
    /\ ~AllWhitespace(req[r].message)
    /\ Falsy(req[r].conversation_id)

\* A request with a non-blank message and a non-empty conversation id.
Supplied(r) ==
    /\ pc[r] # "idle"
    /\ ~AllWhitespace(req[r].message)
    /\ ~Falsy(req[r].conversation_id)

(* ------------------------------------------------------------------ C1 *)

\* C1 (as claimed): when every create_document call of a chat request with a
\* non-blank message raises, the request is still answered 200 with the
\* reply, and its conversation_id is the supplied id, or "temporary" when
\* none was supplied.
C1_DegradedReply ==
    \A r \in Requests :
        (Done(r) /\ ~AllWhitespace(req[r].message) /\ AllRaised(r)) =>
            /\ resp[r].status = 200
            /\ resp[r].reply = local[r].assistant_reply
            /\ resp[r].conversation_id =
                   IF Falsy(req[r].conversation_id) THEN TEMPORARY
                   ELSE req[r].conversation_id

(* ------------------------------------------------------------------ C2 *)

\* C2: a chat request whose message is empty or only whitespace is answered
\* 400 and makes no create_document call; the conversation and message
\* collections stay as they were (empty, with this one request).
C2_BlankRejected ==
    (pc[1] # "idle" /\ AllWhitespace(req[1].message)) =>
        /\ Done(1)
        /\ resp[1].status = 400
        /\ calls[1] = <<>>
        /\ conversation = {}
        /\ message = {}

C2_Witness ==
    /\ Done(1)
    /\ req[1].message = <<" ", "\t">>
    /\ resp[1].status = 400

(* ------------------------------------------------------------------ C3 *)

\* C3 (as claimed): a completed chat request has persisted both its user and
\* its assistant message or neither, so once no request is in flight every
\* conversation id has as many user as assistant messages.
C3_PairsAtomic ==
    /\ \A r \in Requests :
           Done(r) => (UserMessagesOf(r) # {} <=> AssistantMessagesOf(r) # {})
    /\ (\A r \in Requests : pc[r] \in {"idle", "done"}) =>
           \A m \in message :
               Count(m.conversation_id, "user") = Count(m.conversation_id, "assistant")

\* C3 (amended): a completed chat request has persisted both messages when
\* none of its writes raised, only its user message when the assistant write
\* raised, and neither otherwise; an assistant message is never persisted
\* without its turn's user message, so every conversation id has at most as
\* many assistant messages as user messages.
C3_PairsBestEffort ==
    /\ \A r \in Requests :
           /\ AssistantMessagesOf(r) # {} => UserMessagesOf(r) # {}
           /\ Cardinality(UserMessagesOf(r)) <= 1
           /\ Cardinality(AssistantMessagesOf(r)) <= 1
           /\ (Done(r) /\ resp[r].status = 200 /\ AllOk(r)) =>
                  UserMessagesOf(r) # {} /\ AssistantMessagesOf(r) # {}
           /\ (Done(r) /\ ~AllOk(r)) =>
                  /\ AssistantMessagesOf(r) = {}
                  /\ UserMessagesOf(r) # {} <=>
                         calls[r][Len(calls[r])].op = "assistant"
    /\ \A m \in message :
           Count(m.conversation_id, "assistant") <= Count(m.conversation_id, "user")

\* A completed turn that persisted its user message alone.
C3_Witness ==
    \E r \in Requests :
        /\ Done(r)
        /\ resp[r].status = 200
        /\ UserMessagesOf(r) # {}
        /\ AssistantMessagesOf(r) = {}

(* ------------------------------------------------------------------ C4 *)

\* C4: a chat request with a non-blank message and no conversation id
\* (absent or empty), all of whose writes returned, has created exactly one
\* conversation; the response carries that conversation's id and so do both
\* messages the request persisted.
C4_NewConversation ==
    \A r \in Requests :
        (Done(r) /\ Fresh(r) /\ AllOk(r)) =>
            /\ Ops(r) = <<"conversation", "user", "assistant">>
            /\ Cardinality(ConversationsOf(r)) = 1
            /\ resp[r].status = 200
            /\ \A c \in ConversationsOf(r) :
                   /\ resp[r].conversation_id = c.id
                   /\ \A m \in MessagesOf(r) : m.conversation_id = c.id
            /\ Cardinality(UserMessagesOf(r)) = 1
            /\ Cardinality(AssistantMessagesOf(r)) = 1

C4_Witness ==
    \E r \in Requests :
        /\ Done(r) /\ Fresh(r) /\ AllOk(r)
        /\ req[r].conversation_id = ""
        /\ resp[r].status = 200
        /\ Cardinality(MessagesOf(r)) = 2

(* ------------------------------------------------------------------ C5 *)

\* C5 (as claimed): the reply is the fixed prefix, the message exactly as
\* received, and the fixed suffix.
C5_ReplyVerbatim ==
    resp[1].status = 200 =>
        resp[1].reply = REPLY_PREFIX \o req[1].message \o REPLY_SUFFIX

\* C5 (amended): the reply is the fixed prefix, the message without its
\* leading and trailing whitespace (its inside unchanged), and the fixed
\* suffix; the persisted assistant message holds that same reply and the
\* persisted user message the stripped text.
C5_ReplyStripped ==
    resp[1].status = 200 =>
        LET reply == resp[1].reply
        IN  /\ Len(reply) >= 3
            /\ <<reply[1]>> = REPLY_PREFIX
            /\ <<reply[Len(reply)]>> = REPLY_SUFFIX
            /\ IsStripOf(SubSeq(reply, 2, Len(reply) - 1), req[1].message)
            /\ \A m \in AssistantMessagesOf(1) : m.content = reply
            /\ \A m \in UserMessagesOf(1) : IsStripOf(m.content, req[1].message)

\* A message with whitespace around and inside it, answered and persisted.
C5_Witness ==
    /\ resp[1].status = 200
    /\ req[1].message = <<" ", "a", "\t">>
    /\ resp[1].reply = REPLY_PREFIX \o <<"a">> \o REPLY_SUFFIX
    /\ AssistantMessagesOf(1) # {}

(* ------------------------------------------------------------------ C6 *)

\* C6: when the query raises or returns no document, GET /api/plans answers
\* 200 with the three default plans Starter, Pro, Enterprise in that order,
\* and GET /api/case-studies answers 200 with the three default case
\* studies; neither handler ever answers with an error.
C6_DefaultsOnEmptyOrError ==
    /\ content.endpoint # "none" => content.response.status = 200
    /\ (content.endpoint = "plans"
          /\ (content.query.raised \/ content.query.docs = <<>>)) =>
           /\ content.response.plans = DEFAULT_PLANS
           /\ [i \in 1..Len(content.response.plans) |-> content.response.plans[i].name]
                  = <<PyStr("Starter"), PyStr("Pro"), PyStr("Enterprise")>>
    /\ (content.endpoint = "case-studies"
          /\ (content.query.raised \/ content.query.docs = <<>>)) =>
           /\ content.response.caseStudies = DEFAULT_CASE_STUDIES
           /\ Len(content.response.caseStudies) = 3

C6_Witness ==
    /\ content.endpoint = "plans"
    /\ ~content.query.raised
    /\ content.query.docs = <<>>
    /\ Len(content.response.plans) = 3

(* ------------------------------------------------------------------ C7 *)

\* The requests without a conversation id that completed with every write
\* returned.
Succeeded == {r \in Requests : Done(r) /\ Fresh(r) /\ AllOk(r)}

\* C7: chat requests are neither retried nor deduplicated: no request attempts
\* any of its three writes twice, and N completed requests without a
\* conversation id whose writes all returned have persisted N distinct
\* conversations and 2N messages, each message under the conversation of
\* its own request.
C7_NoRetryNoDedup ==
    /\ \A r \in Requests :
           \A i, j \in 1..Len(calls[r]) : calls[r][i].op = calls[r][j].op => i = j
    /\ Cardinality(UNION {ConversationsOf(r) : r \in Succeeded})
           = Cardinality(Succeeded)
    /\ Cardinality(UNION {MessagesOf(r) : r \in Succeeded})
           = 2 * Cardinality(Succeeded)
    /\ \A r1, r2 \in Succeeded :
           r1 # r2 => ConversationsOf(r1) \cap ConversationsOf(r2) = {}
    /\ \A r \in Succeeded :
           \A m \in MessagesOf(r) : m.conversation_id \in OkIds(r, "conversation")
    /\ Succeeded = Requests =>
           /\ Cardinality(conversation) = NumRequests
           /\ Cardinality(message) = 2 * NumRequests

\* Every request sent the same body and every write returned.
C7_Witness ==
    /\ Succeeded = Requests
    /\ \A r \in Requests : req[r] = Body(NONE, <<" ", "a">>)

(* ------------------------------------------------------------------ C8 *)

\* C8: a chat request that supplies a non-empty conversation id creates no
\* conversation; its response carries the supplied id whether its message
\* writes returned or raised, and its messages are persisted under the
\* supplied id whether or not a conversation of that id exists.
C8_SuppliedIdKept ==
    \A r \in Requests :
        Supplied(r) =>
            /\ \A i \in 1..Len(calls[r]) : calls[r][i].op # "conversation"
            /\ ConversationsOf(r) = {}
            /\ Done(r) =>
                   /\ resp[r].status = 200
                   /\ resp[r].conversation_id = req[r].conversation_id
            /\ \A m \in MessagesOf(r) : m.conversation_id = req[r].conversation_id
            /\ (Done(r) /\ AllOk(r)) => Cardinality(MessagesOf(r)) = 2

\* A message persisted under an id no conversation has, beside a request
\* whose write raised and that still answered with the supplied id.
C8_Witness ==
    /\ \E r \in Requests :
           /\ Done(r) /\ Supplied(r) /\ AllOk(r)
           /\ \E m \in MessagesOf(r) :
                  \A c \in conversation : c.id # m.conversation_id
    /\ \E r \in Requests :
           /\ Done(r) /\ Supplied(r) /\ ~AllOk(r)
           /\ resp[r].conversation_id = req[r].conversation_id

(* ------------------------------------------------------------------ C9 *)

\* The value the response shows for field f of stored document d.
Shown(d, f) == IF f \in DOMAIN d THEN d[f] ELSE PyNone

\* C9: when the query returns documents, the response holds one item per
\* document, in order, and no default; each item has exactly the projected
\* fields, with a missing or null features/metrics shown as the empty list.
C9_StoredReplaceDefaults ==
    /\ (content.endpoint = "plans" /\ content.query.docs # <<>>) =>
           LET docs == content.query.docs
               out == content.response.plans
           IN  /\ Len(out) = Len(docs)
               /\ \A i \in 1..Len(out) :
                      /\ DOMAIN out[i] = {"name", "price", "description", "features"}
                      /\ \A f \in {"name", "price", "description"} :
                             out[i][f] = Shown(docs[i], f)
                      /\ out[i].features =
                             IF Shown(docs[i], "features") = PyNone THEN PyList(<<>>)
                             ELSE docs[i].features
                      /\ \A k \in 1..Len(DEFAULT_PLANS) : out[i] # DEFAULT_PLANS[k]
    /\ (content.endpoint = "case-studies" /\ content.query.docs # <<>>) =>
           LET docs == content.query.docs
               out == content.response.caseStudies
           IN  /\ Len(out) = Len(docs)
               /\ \A i \in 1..Len(out) :
                      /\ DOMAIN out[i] =
                             {"title", "industry", "summary", "impact", "metrics"}
                      /\ \A f \in {"title", "industry", "summary", "impact"} :
                             out[i][f] = Shown(docs[i], f)
                      /\ out[i].metrics =
                             IF Shown(docs[i], "metrics") = PyNone THEN PyList(<<>>)
                             ELSE docs[i].metrics
                      /\ \A k \in 1..Len(DEFAULT_CASE_STUDIES) :
                             out[i] # DEFAULT_CASE_STUDIES[k]

\* Two stored plans, the first without features, the second with a null one.
C9_Witness ==
    /\ content.endpoint = "plans"
    /\ Len(content.query.docs) = 2
    /\ "features" \notin DOMAIN content.query.docs[1]
    /\ "features" \in DOMAIN content.query.docs[2]
    /\ content.query.docs[2].features = PyNone
    /\ content.response.plans[1].features = PyList(<<>>)
    /\ content.response.plans[2].features = PyList(<<>>)

(* ----------------------------------------------------------------- C10 *)

\* s is an initial part of t.
IsPrefix(s, t) == Len(s) <= Len(t) /\ s = SubSeq(t, 1, Len(s))

\* C10: a request attempts its writes in the order conversation (only
\* without a supplied id), user message, assistant message, each only after
\* the one before returned; so an assistant message is persisted only with
\* its turn's user message, and a message of a turn without supplied id only
\* with that turn's conversation.
C10_WriteOrder ==
    \A r \in Requests :
        /\ pc[r] # "idle" =>
               IsPrefix(Ops(r),
                        IF Falsy(req[r].conversation_id)
                        THEN <<"conversation", "user", "assistant">>
                        ELSE <<"user", "assistant">>)
        /\ \A i \in 1..(Len(calls[r]) - 1) : calls[r][i].ok
        /\ AssistantMessagesOf(r) # {} => UserMessagesOf(r) # {}
        /\ (Fresh(r) /\ MessagesOf(r) # {}) => ConversationsOf(r) # {}

\* A turn without supplied id that wrote its conversation and its user
\* message, and whose assistant write then raised.
C10_Witness ==
    \E r \in Requests :
        /\ Done(r) /\ Fresh(r)
        /\ Ops(r) = <<"conversation", "user", "assistant">>
        /\ ~calls[r][3].ok
        /\ ConversationsOf(r) # {}
        /\ UserMessagesOf(r) # {}

====
